---- MODULE Spec2Model ----
(***************************************************************************)
(* A model of kattis2canvas: the reduction of scraped judge rows to best   *)
(* submissions (get_best_submissions), the lookup of a profile's judge     *)
(* link (find_kattis_link) and the mirroring of best submissions into the  *)
(* LMS as submission comments (submissions2canvas).                        *)
(*                                                                         *)
(* src/kattis2canvas.py and src/main.py hold the same get_best_submissions *)
(* and the same planning loop; line numbers are those of kattis2canvas.py. *)
(***************************************************************************)
EXTENDS Integers, Sequences, FiniteSets, TLC

VARIABLES
    \* get_best_submissions, one row at a time
    rows,                   \* the normalized rows of the judge table, in page order
    row_i,                  \* number of rows processed so far
    best_submissions,       \* user -> (problem -> Submission)
    best_keys,              \* the keys of best_submissions in insertion order
    best_pc,                \* "idle" | "loop" | "done"
    \* find_kattis_link
    profile_links,          \* profile["links"]: a list of [title, url]
    link_i,                 \* number of links examined so far
    kattis_url,             \* the local kattis_url
    link_pc,                \* "idle" | "loop" | "done"
    \* submissions2canvas, for one assignment
    dryrun,                 \* the --dryrun/--no-dryrun option
    now,                    \* the module's now, in ticks
    clock,                  \* the time of the latest destination write, in ticks
    run,                    \* 1: the run; 2: a second run after it
    sync_pc,                \* "idle" | "links" | "collect" | "plan" | "done" | "aborted"
    kattis_links,           \* what get_kattis_links returned, sorted by name
    kattis_user2canvas_id,  \* judge user -> LMS user
    canvas_id2kattis_user,  \* LMS user id -> judge user
    canvas_submissions,     \* what canvas_assignment.get_submissions lists
    listed,                 \* the listing the loop of line 426 read in this run
    submissions_by_user,    \* judge user -> the retained destination submission
    plan,                   \* what the loop of line 440 decided, entry by entry
    writes,                 \* the calls of edit(comment=...)
    warnings,               \* the warnings of lines 403 and 429
    \* the date of one row of the judge table (lines 476-485)
    props_date,             \* props["Date"]
    date,                   \* the local date, in ticks
    date_pc,                \* "idle" | "parse" | "done"
    \* the score of one row of the judge table (line 487)
    test_cases,             \* props["Test cases"], a string of characters
    score,                  \* the local score, a fraction
    score_pc,               \* "idle" | "parse" | "done" | "raised"
    \* extract_last
    extract_arg,            \* the string extract_last was called with
    pathish,                \* the parameter pathish, a string of characters
    last_slash,             \* the local last_slash
    last_pc,                \* "idle" | "call" | "slice" | "done" | "raised"
    \* get_kattis_links
    course_users,           \* what course.get_users lists
    user_i,                 \* number of users the loop of line 342 has seen
    futures,                \* the futures, in the order they were submitted
    gather_i,               \* number of futures whose result was collected
    links_out,              \* the local links
    roster_pc,              \* "idle" | "submit" | "gather" | "sort" | "done"
    \* submissions2canvas, the loop over the assignments (lines 417-456)
    kattis_assignments,     \* what get_assignments yields, in page order
    assignments,            \* the names of the destination's assignments
    assign_i,               \* number of assignments the loop has finished
    entry_i,                \* number of best submissions handled in the current one
    run_log,                \* what the run reported and wrote, in order
    run_pc                  \* "idle" | "loop" | "entries" | "done" | "aborted"

best_vars == <<rows, row_i, best_submissions, best_keys, best_pc>>
link_vars == <<profile_links, link_i, kattis_url, link_pc>>
sync_vars == <<dryrun, now, clock, run, sync_pc, kattis_links, kattis_user2canvas_id,
               canvas_id2kattis_user, canvas_submissions, listed,
               submissions_by_user, plan, writes, warnings>>
date_vars == <<props_date, date, date_pc>>
score_vars == <<test_cases, score, score_pc>>
last_vars == <<extract_arg, pathish, last_slash, last_pc>>
roster_vars == <<course_users, user_i, futures, gather_i, links_out, roster_pc>>
run_vars == <<kattis_assignments, assignments, assign_i, entry_i, run_log, run_pc>>
aux_vars == <<date_vars, score_vars, last_vars, roster_vars, run_vars>>
vars == <<best_vars, link_vars, sync_vars, aux_vars>>

None == "None"

\* a Python dict as a function; d[k] = v
EmptyDict == <<>>
Put(d, k, v) == [x \in (DOMAIN d) \cup {k} |-> IF x = k THEN v ELSE d[x]]

SeqsUpTo(S, n) == UNION {[1..m -> S] : m \in 0..n}

-----------------------------------------------------------------------------
(* Identifiers *)

KattisUsers == {"k1", "k2"}
CanvasUsers == {"c1", "c2"}
Problems == {"p1", "p2"}

-----------------------------------------------------------------------------
(* get_best_submissions: the selection loop over normalized rows *)

MaxRows == 3

BestScores == {0, 100}
BestDates == {1, 2}
BestUrls == {"/submissions/1", "/submissions/2"}

\* class Submission
Submission == [user: KattisUsers, problem: Problems, score: BestScores,
               url: BestUrls, date: BestDates]

\* the condition of lines 494-495: submission replaces current_best
Replaces(current_best, submission) ==
    \/ current_best.score < submission.score
    \/ /\ current_best.score = submission.score
       /\ current_best.date < submission.date

\* best_submissions[submission.user] of a defaultdict(dict)
UserDict(best, user) == IF user \in DOMAIN best THEN best[user] ELSE EmptyDict

\* lines 490-496: one row against the best submissions held so far
ProcessRow(best, submission) ==
    LET held == UserDict(best, submission.user) IN
    IF submission.problem \notin DOMAIN held
    THEN Put(best, submission.user, Put(EmptyDict, submission.problem, submission))
    ELSE IF Replaces(held[submission.problem], submission)
         THEN Put(best, submission.user, Put(held, submission.problem, submission))
         ELSE best

\* the insertion order of the keys of best_submissions
ProcessKeys(keys, submission) ==
    IF \E i \in 1..Len(keys) : keys[i] = submission.user
    THEN keys
    ELSE Append(keys, submission.user)

BestIdle ==
    /\ rows = <<>>
    /\ row_i = 0
    /\ best_submissions = EmptyDict
    /\ best_keys = <<>>
    /\ best_pc = "idle"

LinkIdle ==
    /\ profile_links = <<>>
    /\ link_i = 0
    /\ kattis_url = None
    /\ link_pc = "idle"

SyncRestIdle ==
    /\ dryrun = TRUE
    /\ clock = 0
    /\ run = 1
    /\ sync_pc = "idle"
    /\ kattis_links = <<>>
    /\ kattis_user2canvas_id = EmptyDict
    /\ canvas_id2kattis_user = EmptyDict
    /\ canvas_submissions = <<>>
    /\ listed = <<>>
    /\ submissions_by_user = EmptyDict
    /\ plan = <<>>
    /\ writes = <<>>
    /\ warnings = {}

SyncIdle ==
    /\ now = 0
    /\ SyncRestIdle

DateIdle ==
    /\ props_date = <<>>
    /\ date = 0
    /\ date_pc = "idle"

ScoreIdle ==
    /\ test_cases = <<>>
    /\ score = <<>>
    /\ score_pc = "idle"

LastIdle ==
    /\ extract_arg = <<>>
    /\ pathish = <<>>
    /\ last_slash = 0
    /\ last_pc = "idle"

RosterIdle ==
    /\ course_users = <<>>
    /\ user_i = 0
    /\ futures = <<>>
    /\ gather_i = 0
    /\ links_out = <<>>
    /\ roster_pc = "idle"

RunIdle ==
    /\ kattis_assignments = <<>>
    /\ assignments = {}
    /\ assign_i = 0
    /\ entry_i = 0
    /\ run_log = <<>>
    /\ run_pc = "idle"

AuxIdle ==
    /\ DateIdle
    /\ ScoreIdle
    /\ LastIdle
    /\ RosterIdle
    /\ RunIdle

InitBest ==
    /\ rows \in SeqsUpTo(Submission, MaxRows)
    /\ row_i = 0
    /\ best_submissions = EmptyDict
    /\ best_keys = <<>>
    /\ best_pc = "loop"
    /\ LinkIdle
    /\ SyncIdle
    /\ AuxIdle

\* one iteration of the loop of line 466 (lines 488-496)
BestRow ==
    /\ best_pc = "loop"
    /\ row_i < Len(rows)
    /\ row_i' = row_i + 1
    /\ best_submissions' = ProcessRow(best_submissions, rows[row_i + 1])
    /\ best_keys' = ProcessKeys(best_keys, rows[row_i + 1])
    /\ UNCHANGED <<rows, best_pc, link_vars, sync_vars, aux_vars>>

\* line 497
BestReturn ==
    /\ best_pc = "loop"
    /\ row_i = Len(rows)
    /\ best_pc' = "done"
    /\ UNCHANGED <<rows, row_i, best_submissions, best_keys, link_vars, sync_vars, aux_vars>>

NextBest == BestRow \/ BestReturn

SpecBest == InitBest /\ [][NextBest]_vars

\* the rows of one (user, problem) pair
RowsOf(user, problem) ==
    {i \in 1..Len(rows) : rows[i].user = user /\ rows[i].problem = problem}

\* b is ahead of a by (score, then submittedAt)
Ahead(a, b) == a.score < b.score \/ (a.score = b.score /\ a.date < b.date)

\* C1: when get_best_submissions returns, the map holds for every (user,
\* problem) pair of the input a row of that pair that no row of the pair is
\* ahead of by (score, then submittedAt), and holds nothing else; so the
\* result does not depend on the order of the rows.
C1_BestIsMaximum ==
    best_pc = "done" =>
        /\ \A i \in 1..Len(rows) :
              /\ rows[i].user \in DOMAIN best_submissions
              /\ rows[i].problem \in DOMAIN best_submissions[rows[i].user]
              /\ LET held == best_submissions[rows[i].user][rows[i].problem] IN
                   /\ \E j \in RowsOf(rows[i].user, rows[i].problem) : rows[j] = held
                   /\ \A j \in RowsOf(rows[i].user, rows[i].problem) : ~Ahead(held, rows[j])
        /\ \A u \in DOMAIN best_submissions :
              \A p \in DOMAIN best_submissions[u] : RowsOf(u, p) # {}

-----------------------------------------------------------------------------
(* find_kattis_link *)

MaxLinks == 3

\* str.lower() on the letters that occur in the titles below
Lower(c) ==
    CASE c = "K" -> "k" [] c = "A" -> "a" [] c = "T" -> "t" [] c = "I" -> "i"
      [] c = "S" -> "s" [] c = "G" -> "g" [] c = "H" -> "h" [] c = "B" -> "b"
      [] OTHER -> c

LowerStr(s) == [i \in 1..Len(s) |-> Lower(s[i])]

\* Python's  needle in hay  for strings
Contains(needle, hay) ==
    \E off \in 0..(Len(hay) - Len(needle)) :
        \A j \in 1..Len(needle) : hay[off + j] = needle[j]

\* the literal "kattis" of line 328
Marker == <<"k", "a", "t", "t", "i", "s">>

\* link titles as strings of characters
Titles == {
    <<"K", "a", "t", "t", "i", "s">>,
    <<"k", "a", "t", "t", "i", "s">>,
    <<"m", "y", " ", "K", "A", "T", "T", "I", "S">>,
    <<"k", "a", "t", "t", "i", "s", ".", "c", "o", "m">>,
    <<"G", "i", "t", "H", "u", "b">>,
    <<"K", "a", "t", "t", "i">>,
    <<"k", "a", "t", " ", "t", "i", "s">>,
    <<>> }

Urls == {"https://open.kattis.com/users/alice", "https://open.kattis.com/users/bob"}

Link == [title: Titles, url: Urls]

\* LinkBody that keeps the first matching link
LinkBody_FirstWins(url, link) ==
    IF Contains(Marker, LowerStr(link.title)) /\ url = None THEN link.url ELSE url

\* lines 328-329: the body of the loop for one link
LinkBody(url, link) ==
    IF Contains(Marker, LowerStr(link.title)) THEN link.url ELSE url

RECURSIVE FoldLinks(_, _)
FoldLinks(url, ls) ==
    IF ls = <<>> THEN url ELSE FoldLinks(LinkBody(url, Head(ls)), Tail(ls))

\* lines 325-330 as a function of profile["links"]
find_kattis_link(ls) == FoldLinks(None, ls)

InitLink ==
    /\ profile_links \in SeqsUpTo(Link, MaxLinks)
    /\ link_i = 0
    /\ kattis_url = None
    /\ link_pc = "loop"
    /\ BestIdle
    /\ SyncIdle
    /\ AuxIdle

\* one iteration of the loop of line 327
LinkLoop ==
    /\ link_pc = "loop"
    /\ link_i < Len(profile_links)
    /\ link_i' = link_i + 1
    /\ kattis_url' = LinkBody(kattis_url, profile_links[link_i + 1])
    /\ UNCHANGED <<profile_links, link_pc, best_vars, sync_vars, aux_vars>>

\* line 330
LinkReturn ==
    /\ link_pc = "loop"
    /\ link_i = Len(profile_links)
    /\ link_pc' = "done"
    /\ UNCHANGED <<profile_links, link_i, kattis_url, best_vars, sync_vars, aux_vars>>

NextLink == LinkLoop \/ LinkReturn

SpecLink == InitLink /\ [][NextLink]_vars

\* two characters that are the same letter in either case
SameLetter(a, b) ==
    \/ a = b
    \/ <<a, b>> \in {<<"K", "k">>, <<"k", "K">>, <<"A", "a">>, <<"a", "A">>,
                     <<"T", "t">>, <<"t", "T">>, <<"I", "i">>, <<"i", "I">>,
                     <<"S", "s">>, <<"s", "S">>}

\* the label holds the marker at some offset, letter case ignored
LabelMatches(title) ==
    \E off \in 0..(Len(title) - 6) :
        /\ SameLetter(title[off + 1], "k") /\ SameLetter(title[off + 2], "a")
        /\ SameLetter(title[off + 3], "t") /\ SameLetter(title[off + 4], "t")
        /\ SameLetter(title[off + 5], "i") /\ SameLetter(title[off + 6], "s")

MatchingLinks == {i \in 1..Len(profile_links) : LabelMatches(profile_links[i].title)}

\* C10: find_kattis_link returns the URL of the last link in list order whose
\* label contains "kattis" in any letter case, and None when no label does.
C10_LastMatchingLink ==
    link_pc = "done" =>
        IF MatchingLinks = {}
        THEN kattis_url = None
        ELSE \E i \in MatchingLinks :
                /\ \A j \in MatchingLinks : j <= i
                /\ kattis_url = profile_links[i].url

\* two matching links with different URLs in mixed case, followed by a
\* link that does not match: the later match is returned
C10_Witness ==
    /\ link_pc = "done"
    /\ Len(profile_links) = 3
    /\ MatchingLinks = {1, 2}
    /\ profile_links[1].url # profile_links[2].url
    /\ profile_links[2].title # LowerStr(profile_links[2].title)
    /\ kattis_url = profile_links[2].url

-----------------------------------------------------------------------------
(* Time: datetimes are ticks since datetime.fromordinal(1); a second has   *)
(* TicksPerSec ticks, so a datetime carries a sub-second part.             *)

TicksPerSec == 2

\* datetime.datetime.fromordinal(1), the start value of last_comment
Ordinal1 == 0

SecOf(t) == t \div TicksPerSec
SubSec(t) == t % TicksPerSec

\* lines 142-143: a created_at of the form %Y-%m-%dT%H:%M:%SZ names a whole second
extract_canvas_date(element) == element * TicksPerSec

\* the values of now: any instant of the second NowSec
FirstNow == 2 * TicksPerSec
NowSec == SecOf(FirstNow)
NowTicks == FirstNow..(FirstNow + TicksPerSec - 1)

\* latest time of a destination write, in ticks after now
MaxDelay == 2

-----------------------------------------------------------------------------
(* get_best_submissions as a function of the rows of the page *)

RECURSIVE FoldRows(_, _)
FoldRows(acc, rs) ==
    IF rs = <<>> THEN acc
    ELSE FoldRows([best |-> ProcessRow(acc.best, Head(rs)),
                   keys |-> ProcessKeys(acc.keys, Head(rs))], Tail(rs))

\* lines 459-497, from the normalized rows on
get_best_submissions(rs) == FoldRows([best |-> EmptyDict, keys |-> <<>>], rs)

\* The dates lines 476-485 produce for rows submitted in the second before
\* now or in the second of now: a full-form date is a whole second, a
\* short-form date is now.replace(hour, minute, second) and keeps the
\* sub-second part of now.
SyncDates(n) == {SecOf(n) * TicksPerSec - TicksPerSec, SecOf(n) * TicksPerSec, n}

SyncRows(n) == [user: KattisUsers, problem: Problems, score: {100},
                url: {"/submissions/1"}, date: SyncDates(n)]

\* what get_best_submissions returns for the pages of r rows
BestsOfLen(n, r) == {get_best_submissions(rs) : rs \in [1..r -> SyncRows(n)]}

-----------------------------------------------------------------------------
(* submissions2canvas *)

\* the size of the input of a run: the rows of the judge page, the listed
\* destination submissions and their comments, taken together
MaxInput == 4

\* get_kattis_links: one KattisLink per student, sorted by name
KattisLinkLists ==
    {<<[canvas_user |-> "c1", kattis_user |-> a],
       [canvas_user |-> "c2", kattis_user |-> b]>> :
        a \in KattisUsers \cup {None}, b \in KattisUsers \cup {None}}

\* a submission comment as the destination lists it: created_at names a
\* whole second; problem is the problem its text names
Comment == [created_at: {NowSec - 1, NowSec}, problem: Problems]

Chronological(cs) == \A i \in 1..(Len(cs) - 1) : cs[i].created_at <= cs[i + 1].created_at

\* the lists of c comments, oldest first
CommentLists(c) == {cs \in [1..c -> Comment] : Chronological(cs)}

\* a listed submission with c comments
CanvasSubmission(c) == [user_id: CanvasUsers, submission_comments: CommentLists(c)]

\* the listings that hold m submissions and comments in all
RECURSIVE ListingsOfSize(_)
ListingsOfSize(m) ==
    IF m = 0 THEN {<<>>}
    ELSE UNION {{<<s>> \o rest : s \in CanvasSubmission(j - 1),
                                rest \in ListingsOfSize(m - j)} : j \in 1..m}

Listings == [m \in 0..MaxInput |-> ListingsOfSize(m)]

\* lines 432-437: the latest created_at of a submission's comments
RECURSIVE FoldComments(_, _)
FoldComments(last_comment, cs) ==
    IF cs = <<>> THEN last_comment
    ELSE LET created_at == extract_canvas_date(Head(cs).created_at) IN
         FoldComments(IF created_at > last_comment THEN created_at ELSE last_comment,
                      Tail(cs))

LastComment(canvas_submission) ==
    FoldComments(Ordinal1, canvas_submission.submission_comments)

\* lines 396-403: the body of the loop for one link
LinkMaps(acc, link) ==
    IF link.kattis_user # None
    THEN [k2c |-> Put(acc.k2c, link.kattis_user, link.canvas_user),
          c2k |-> Put(acc.c2k, link.canvas_user, link.kattis_user),
          warned |-> acc.warned]
    ELSE [k2c |-> acc.k2c, c2k |-> acc.c2k,
          warned |-> acc.warned \cup {[kind |-> "kattis link missing",
                                      who |-> link.canvas_user]}]

RECURSIVE FoldKattisLinks(_, _)
FoldKattisLinks(acc, ls) ==
    IF ls = <<>> THEN acc ELSE FoldKattisLinks(LinkMaps(acc, Head(ls)), Tail(ls))

\* lines 427-438: the body of the loop for the i-th listed submission
CollectBody(acc, i) ==
    LET canvas_submission == canvas_submissions[i] IN
    IF canvas_submission.user_id \in DOMAIN canvas_id2kattis_user
    THEN [by_user |-> Put(acc.by_user,
                          canvas_id2kattis_user[canvas_submission.user_id],
                          [index |-> i,
                           user_id |-> canvas_submission.user_id,
                           last_comment |-> LastComment(canvas_submission)]),
          warned |-> IF canvas_submission.user_id \in DOMAIN acc.by_user
                     THEN acc.warned \cup {[kind |-> "duplicate submission",
                                            who |-> canvas_submission.user_id]}
                     ELSE acc.warned]
    ELSE acc

RECURSIVE FoldSubmissions(_, _)
FoldSubmissions(acc, i) ==
    IF i > Len(canvas_submissions) THEN acc
    ELSE FoldSubmissions(CollectBody(acc, i), i + 1)

\* the (user, kattis_submission) pairs of the loops of lines 440-441, in order
RECURSIVE Entries(_)
Entries(keys) ==
    IF keys = <<>> THEN <<>>
    ELSE LET best == best_submissions[Head(keys)]
             RECURSIVE OfUser(_)
             OfUser(ps) ==
                 IF ps = {} THEN <<>>
                 ELSE LET p == CHOOSE q \in ps : TRUE IN <<best[p]>> \o OfUser(ps \ {p})
         IN OfUser(DOMAIN best) \o Entries(Tail(keys))

\* Branch with >= for > in line 446
Branch_NotEarlier(user, kattis_submission) ==
    IF user \notin DOMAIN submissions_by_user THEN "no canvas submission"
    ELSE IF user \notin DOMAIN kattis_user2canvas_id THEN "unknown user"
    ELSE IF kattis_submission.date >= submissions_by_user[user].last_comment
         THEN IF dryrun THEN "would update" ELSE "updated"
    ELSE "up to date"

\* lines 442-456: which branch the loop body takes for one best submission
Branch(user, kattis_submission) ==
    IF user \notin DOMAIN submissions_by_user THEN "no canvas submission"
    ELSE IF user \notin DOMAIN kattis_user2canvas_id THEN "unknown user"
    ELSE IF kattis_submission.date > submissions_by_user[user].last_comment
         THEN IF dryrun THEN "would update" ELSE "updated"
    ELSE "up to date"

\* Edits with the call of edit moved above the test of dryrun
Edits_InDryRun(reason) == reason \in {"updated", "would update"}

\* Edits with the call of edit also in the else branch of line 455
Edits_UpToDate(reason) == reason \in {"updated", "up to date"}

\* lines 447-452: the branch that calls edit(comment=...)
Edits(reason) == reason = "updated"

IsUpdate(reason) == reason \in {"would update", "updated", "edit raised"}

PlanEntry(kattis_submission, reason) ==
    [user |-> kattis_submission.user,
     problem |-> kattis_submission.problem,
     date |-> kattis_submission.date,
     action |-> IF IsUpdate(reason) THEN "Update" ELSE "Skip",
     reason |-> reason,
     named |-> IF IsUpdate(reason)
               THEN kattis_user2canvas_id[kattis_submission.user] ELSE None]

\* the destination after edit(comment=...) on a submission of user_id at time t:
\* the comment is added to that user's submission, stamped with the second of t
Commented(user_id, problem, t) ==
    [i \in 1..Len(canvas_submissions) |->
        IF canvas_submissions[i].user_id = user_id
        THEN [canvas_submissions[i] EXCEPT !.submission_comments =
                 Append(@, [created_at |-> SecOf(t), problem |-> problem])]
        ELSE canvas_submissions[i]]

InitSync ==
    /\ now \in NowTicks
    /\ \E r \in 0..MaxRows :
          /\ \E b \in BestsOfLen(now, r) :
                /\ best_submissions = b.best
                /\ best_keys = b.keys
          /\ \E m \in 0..(MaxInput - r) : canvas_submissions \in Listings[m]
    /\ dryrun \in BOOLEAN
    /\ kattis_links \in KattisLinkLists
    /\ clock = now
    /\ run = 1
    /\ sync_pc = "links"
    /\ kattis_user2canvas_id = EmptyDict
    /\ canvas_id2kattis_user = EmptyDict
    /\ listed = <<>>
    /\ submissions_by_user = EmptyDict
    /\ plan = <<>>
    /\ writes = <<>>
    /\ warnings = {}
    /\ rows = <<>>
    /\ row_i = 0
    /\ best_pc = "done"
    /\ LinkIdle
    /\ AuxIdle

\* lines 396-403
BuildLinks ==
    /\ sync_pc = "links"
    /\ LET built == FoldKattisLinks([k2c |-> EmptyDict, c2k |-> EmptyDict,
                                      warned |-> {}], kattis_links) IN
          /\ kattis_user2canvas_id' = built.k2c
          /\ canvas_id2kattis_user' = built.c2k
          /\ warnings' = built.warned
    /\ sync_pc' = "collect"
    /\ UNCHANGED <<dryrun, now, clock, run, kattis_links, canvas_submissions,
                   listed, submissions_by_user, plan, writes, best_vars, link_vars,
                   aux_vars>>

\* lines 425-438
Collect ==
    /\ sync_pc = "collect"
    /\ LET collected == FoldSubmissions([by_user |-> EmptyDict, warned |-> warnings], 1) IN
          /\ submissions_by_user' = collected.by_user
          /\ warnings' = collected.warned
    /\ listed' = canvas_submissions
    /\ sync_pc' = "plan"
    /\ UNCHANGED <<dryrun, now, clock, run, kattis_links, kattis_user2canvas_id,
                   canvas_id2kattis_user, canvas_submissions, plan, writes,
                   best_vars, link_vars,
                   aux_vars>>

\* lines 442-456, for the next best submission; edit() returns
PlanStep ==
    /\ sync_pc = "plan"
    /\ Len(plan) < Len(Entries(best_keys))
    /\ LET kattis_submission == Entries(best_keys)[Len(plan) + 1]
           user == kattis_submission.user
           reason == Branch(user, kattis_submission)
       IN /\ plan' = Append(plan, PlanEntry(kattis_submission, reason))
          /\ IF Edits(reason)
             THEN \E t \in clock..(now + MaxDelay) :
                    /\ clock' = t
                    /\ writes' = Append(writes,
                          [run |-> run, user |-> user,
                           problem |-> kattis_submission.problem,
                           user_id |-> submissions_by_user[user].user_id,
                           ok |-> TRUE, created_at |-> SecOf(t)])
                    /\ canvas_submissions' =
                          Commented(submissions_by_user[user].user_id,
                                    kattis_submission.problem, t)
             ELSE UNCHANGED <<clock, writes, canvas_submissions>>
    /\ UNCHANGED <<dryrun, now, run, sync_pc, kattis_links, kattis_user2canvas_id,
                   canvas_id2kattis_user, listed, submissions_by_user, warnings,
                   best_vars, link_vars,
                   aux_vars>>

\* line 451 raises: nothing catches it, the run ends
EditRaises ==
    /\ sync_pc = "plan"
    /\ Len(plan) < Len(Entries(best_keys))
    /\ LET kattis_submission == Entries(best_keys)[Len(plan) + 1]
           user == kattis_submission.user
       IN /\ Edits(Branch(user, kattis_submission))
          /\ plan' = Append(plan, PlanEntry(kattis_submission, "edit raised"))
          /\ writes' = Append(writes,
                [run |-> run, user |-> user,
                 problem |-> kattis_submission.problem,
                 user_id |-> submissions_by_user[user].user_id,
                 ok |-> FALSE, created_at |-> SecOf(clock)])
    /\ sync_pc' = "aborted"
    /\ UNCHANGED <<dryrun, now, clock, run, kattis_links, kattis_user2canvas_id,
                   canvas_id2kattis_user, canvas_submissions, listed,
                   submissions_by_user, warnings, best_vars, link_vars,
                   aux_vars>>

\* the loop of line 440 is exhausted
PlanDone ==
    /\ sync_pc = "plan"
    /\ Len(plan) = Len(Entries(best_keys))
    /\ sync_pc' = "done"
    /\ UNCHANGED <<dryrun, now, clock, run, kattis_links, kattis_user2canvas_id,
                   canvas_id2kattis_user, canvas_submissions, listed,
                   submissions_by_user, plan, writes, warnings, best_vars, link_vars,
                   aux_vars>>

\* submissions2canvas --no-dryrun is run again: the same links, the same best
\* submissions, the destination as the first run left it
Rerun ==
    /\ sync_pc = "done"
    /\ run = 1
    /\ ~dryrun
    /\ run' = 2
    /\ sync_pc' = "links"
    /\ kattis_user2canvas_id' = EmptyDict
    /\ canvas_id2kattis_user' = EmptyDict
    /\ listed' = <<>>
    /\ submissions_by_user' = EmptyDict
    /\ plan' = <<>>
    /\ warnings' = {}
    /\ UNCHANGED <<dryrun, now, clock, kattis_links, canvas_submissions, writes,
                   best_vars, link_vars,
                   aux_vars>>

NextSync == BuildLinks \/ Collect \/ PlanStep \/ EditRaises \/ PlanDone \/ Rerun

SpecSync == InitSync /\ [][NextSync]_vars

-----------------------------------------------------------------------------
(* Properties of submissions2canvas *)

\* the LMS users whose profile links to the judge user k
Linkers(k) ==
    {kattis_links[i].canvas_user : i \in {j \in 1..Len(kattis_links) :
                                            kattis_links[j].kattis_user = k}}

\* the listed destination submissions of the LMS user c
ListedOf(c) == {i \in 1..Len(listed) : listed[i].user_id = c}

\* the annotations, as <<time in ticks, problem>>, listed for the LMS user c
AnnotationsOf(c) ==
    UNION {{<<listed[i].submission_comments[j].created_at * TicksPerSec,
              listed[i].submission_comments[j].problem>> :
               j \in 1..Len(listed[i].submission_comments)} : i \in ListedOf(c)}

\* the judge user k is linked by one LMS user, who has one listed submission
PlainUser(k) ==
    /\ Cardinality(Linkers(k)) = 1
    /\ \A c \in Linkers(k) : Cardinality(ListedOf(c)) = 1

UpdatesOf(p) == SelectSeq(p, LAMBDA e : e.action = "Update")
WritesOfRun(r) == SelectSeq(writes, LAMBDA w : w.run = r)

\* C2: in the second run, after a live run applied its plan and the
\* destination was listed again, every plan entry is Skip and no write is
\* issued.
C2_SecondRunOnlySkips ==
    run = 2 =>
        /\ \A i \in 1..Len(plan) : plan[i].action = "Skip"
        /\ WritesOfRun(2) = <<>>

\* C3: the entry of a judge user that has a destination submission is
\* Update iff the collapsed last_comment is the "no annotation" sentinel or
\* the best submission's date is strictly later than it, and otherwise Skip
\* as up to date; for a judge user linked by one LMS user with one listed
\* submission this is: Update iff every listed annotation is strictly
\* earlier than the date (so Skip when the latest equals the date, Update
\* when the date is a second later).
C3_UpdateIffStrictlyLater ==
    \A i \in 1..Len(plan) :
        /\ plan[i].user \in DOMAIN submissions_by_user =>
              /\ plan[i].action = "Update" <=>
                    \/ submissions_by_user[plan[i].user].last_comment = Ordinal1
                    \/ plan[i].date > submissions_by_user[plan[i].user].last_comment
              /\ plan[i].action = "Skip" => plan[i].reason = "up to date"
        /\ PlainUser(plan[i].user) =>
              \A c \in Linkers(plan[i].user) :
                  plan[i].action = "Update" <=>
                      \A a \in AnnotationsOf(c) : plan[i].date > a[1]

\* a submission with two annotations a second apart, and a best submission
\* dated as the later of them: Skip
C3_Witness ==
    /\ sync_pc = "done"
    /\ \E i \in 1..Len(plan) :
          /\ PlainUser(plan[i].user)
          /\ plan[i].action = "Skip"
          /\ \E c \in Linkers(plan[i].user) :
                /\ Cardinality(AnnotationsOf(c)) = 2
                /\ \E a \in AnnotationsOf(c) : a[1] = plan[i].date
                /\ \E a \in AnnotationsOf(c) : a[1] + TicksPerSec = plan[i].date

\* C4: the entry of a best submission whose judge user no profile links to
\* is Skip with the reason "unknown user", a reason given to no entry of a
\* linked user, and no write is issued for it.
C4_UnmappedIsUnknownUser ==
    /\ \A i \in 1..Len(plan) :
          Linkers(plan[i].user) = {} <=> plan[i].reason = "unknown user"
    /\ \A i \in 1..Len(plan) :
          Linkers(plan[i].user) = {} => plan[i].action = "Skip"
    /\ \A i \in 1..Len(writes) : Linkers(writes[i].user) # {}

\* C5: a dry run issues no destination write and leaves the destination as
\* it was listed; every Update entry is only reported ("would update").
C5_DryRunWritesNothing ==
    dryrun =>
        /\ writes = <<>>
        /\ sync_pc \in {"plan", "done", "aborted"} => canvas_submissions = listed
        /\ \A i \in 1..Len(plan) :
              plan[i].action = "Update" => plan[i].reason = "would update"

\* a finished dry run that reported an Update
C5_Witness ==
    /\ dryrun
    /\ sync_pc = "done"
    /\ \E i \in 1..Len(plan) : plan[i].reason = "would update"

\* C6: in a live run the calls of edit are, one for one and in order, the
\* Update entries of the plan: one call per Update entry, none for a Skip
\* entry, none repeated.
C6_OneWritePerUpdate ==
    ~dryrun =>
        /\ Len(WritesOfRun(run)) = Len(UpdatesOf(plan))
        /\ \A i \in 1..Len(UpdatesOf(plan)) :
              /\ WritesOfRun(run)[i].user = UpdatesOf(plan)[i].user
              /\ WritesOfRun(run)[i].problem = UpdatesOf(plan)[i].problem

\* a finished live run with an Update entry, a Skip entry, and one write
C6_Witness ==
    /\ ~dryrun
    /\ run = 1
    /\ sync_pc = "done"
    /\ Len(plan) = 2
    /\ \E i \in 1..2 : plan[i].action = "Update"
    /\ \E i \in 1..2 : plan[i].action = "Skip"
    /\ Len(writes) = 1

\* C7: when two LMS users link to the same judge user, the entry of a best
\* submission of that judge user is Skip, no write is issued for it, and
\* each of the two LMS users is named in a warning.
C7_ConflictWarnedAndExcluded ==
    \A i \in 1..Len(plan) :
        Cardinality(Linkers(plan[i].user)) > 1 =>
            /\ plan[i].action = "Skip"
            /\ \A j \in 1..Len(writes) : writes[j].user # plan[i].user
            /\ \A c \in Linkers(plan[i].user) : \E w \in warnings : w.who = c

\* C8: an entry is Skip as up to date only if the destination lists, for
\* the LMS user linked to the entry's judge user, an annotation of the
\* entry's own problem that is at least as late as the best submission.
C8_SkipOnlyByOwnProblem ==
    \A i \in 1..Len(plan) :
        (PlainUser(plan[i].user) /\ plan[i].reason = "up to date") =>
            \E c \in Linkers(plan[i].user) :
                \E a \in AnnotationsOf(c) :
                    a[2] = plan[i].problem /\ a[1] >= plan[i].date

\* the listing holds a record of the LMS user c and, later, another record
\* of c without the latest annotation of the first
StaleDuplicate(c) ==
    \E i, j \in ListedOf(c) :
        /\ i < j
        /\ LastComment(listed[i]) > LastComment(listed[j])

\* C9: when the destination lists, for the LMS user linked to a judge user,
\* a record and later a duplicate with older or no annotations, the
\* last_comment the best submission is compared against is still the latest
\* of all annotations listed for that LMS user, and the duplicate is named
\* in a "duplicate submission" warning.
C9_LatestOverAllRecords ==
    \A i \in 1..Len(plan) :
        \A c \in Linkers(plan[i].user) :
            (Cardinality(Linkers(plan[i].user)) = 1 /\ StaleDuplicate(c)) =>
                /\ \A a \in AnnotationsOf(c) :
                      submissions_by_user[plan[i].user].last_comment >= a[1]
                /\ \E w \in warnings : w.kind = "duplicate submission" /\ w.who = c

-----------------------------------------------------------------------------
(* The date of a row: lines 475-485 of get_best_submissions.  A datetime   *)
(* is a number of ticks; a day has HoursPerDay hours of MinsPerHour        *)
(* minutes of SecsPerMin seconds of TicksPerSec ticks.                     *)

HoursPerDay == 2
MinsPerHour == 2
SecsPerMin == 2

SecsPerDay == HoursPerDay * MinsPerHour * SecsPerMin
TicksPerDay == SecsPerDay * TicksPerSec

\* datetime(day, hour, minute, second, microsecond)
DateTime(day, hour, minute, second, microsecond) ==
    (((day * HoursPerDay + hour) * MinsPerHour + minute) * SecsPerMin + second)
        * TicksPerSec + microsecond

DayOf(dt) == dt \div TicksPerDay

\* the characters of a number field and their values
Digits == <<"0", "1", "2", "3", "4", "5", "6", "7", "8", "9">>
Num(c) == CHOOSE n \in 0..9 : Digits[n + 1] = c
DigitsBelow(n) == {Digits[i] : i \in 1..n}

\* props["Date"]: the full form  day-  hour:minute:second  or the short
\* form  hour:minute:second,  as a list of fields and separators
MaxDays == 3
FullDates == {<<d, "-", h, ":", m, ":", x>> :
                 d \in DigitsBelow(MaxDays), h \in DigitsBelow(HoursPerDay),
                 m \in DigitsBelow(MinsPerHour), x \in DigitsBelow(SecsPerMin)}
ShortDates == {<<h, ":", m, ":", x>> :
                 h \in DigitsBelow(HoursPerDay),
                 m \in DigitsBelow(MinsPerHour), x \in DigitsBelow(SecsPerMin)}

\* the values of now: any instant of day 1
DateNows == TicksPerDay..(2 * TicksPerDay - 1)

\* line 477: "-" in date
HasDash(text) == \E i \in 1..Len(text) : text[i] = "-"

\* line 478: strptime(date, "%Y-%m-%d %H:%M:%S"), a whole second
strptime_full(text) ==
    DateTime(Num(text[1]), Num(text[3]), Num(text[5]), Num(text[7]), 0)

\* line 480: strptime(date, "%H:%M:%S")
strptime_hms(text) ==
    [hour |-> Num(text[1]), minute |-> Num(text[3]), second |-> Num(text[5])]

\* line 481, datetime.replace(hour=, minute=, second=): the date and the
\* microsecond of dt are kept
replace(dt, hour, minute, second) ==
    DateTime(DayOf(dt), hour, minute, second, SubSec(dt))

\* After with >= for the > of line 484
After_OrEqual(d, n) == d >= n

\* line 484: date > now
After(d, n) == d > n

InitDate ==
    /\ now \in DateNows
    /\ props_date \in FullDates \cup ShortDates
    /\ date = 0
    /\ date_pc = "parse"
    /\ BestIdle
    /\ LinkIdle
    /\ SyncRestIdle
    /\ ScoreIdle
    /\ LastIdle
    /\ RosterIdle
    /\ RunIdle

DateOthers == <<best_vars, link_vars, sync_vars, score_vars, last_vars,
                roster_vars, run_vars>>

\* lines 477-478
DateFull ==
    /\ date_pc = "parse"
    /\ HasDash(props_date)
    /\ date' = strptime_full(props_date)
    /\ date_pc' = "done"
    /\ UNCHANGED <<props_date, DateOthers>>

\* lines 480-481
DateShort ==
    /\ date_pc = "parse"
    /\ ~HasDash(props_date)
    /\ LET hms == strptime_hms(props_date) IN
          date' = replace(now, hms.hour, hms.minute, hms.second)
    /\ date_pc' = "placed"
    /\ UNCHANGED <<props_date, DateOthers>>

\* lines 484-485
DateBack ==
    /\ date_pc = "placed"
    /\ date' = IF After(date, now) THEN date - TicksPerDay ELSE date
    /\ date_pc' = "done"
    /\ UNCHANGED <<props_date, DateOthers>>

NextDate == DateFull \/ DateShort \/ DateBack

SpecDate == InitDate /\ [][NextDate]_vars

\* the whole second the short-form row names, on the calendar date of now
Placed ==
    DayOf(now) * SecsPerDay
        + (Num(props_date[1]) * MinsPerHour + Num(props_date[3])) * SecsPerMin
        + Num(props_date[5])

\* C11: the date resolved for a short-form row is, to the second, the
\* row's time on the calendar date of now, a day earlier iff that second is
\* after the second of now (not when it is the second of now); it is never
\* after now and less than a day before now.
C11_ShortDateResolved ==
    (date_pc = "done" /\ ~HasDash(props_date)) =>
        /\ SecOf(date) = IF Placed > SecOf(now) THEN Placed - SecsPerDay ELSE Placed
        /\ date <= now
        /\ now - date < TicksPerDay

\* a row whose time is after now's was moved to the day before
C11_Witness ==
    /\ date_pc = "done"
    /\ ~HasDash(props_date)
    /\ Placed > SecOf(now)
    /\ DayOf(date) = DayOf(now) - 1

\* C20: the date resolved for a short-form row has a zero sub-second part,
\* so it is not later than an annotation created in the same second.
C20_ShortDateWholeSecond ==
    (date_pc = "done" /\ ~HasDash(props_date)) =>
        /\ SubSec(date) = 0
        /\ ~(date > extract_canvas_date(SecOf(date)))

-----------------------------------------------------------------------------
(* The score of a row: line 487 of get_best_submissions.  A score is a     *)
(* fraction [num, den] in lowest terms.                                    *)

MaxDigits == 1

\* the strings of 1..MaxDigits digits
Numerals == UNION {[1..n -> DigitsBelow(10)] : n \in 1..MaxDigits}

Dash == <<"-", "/", "-">>

\* props["Test cases"]
TestCases == {Dash} \cup {p \o <<"/">> \o q : p \in Numerals, q \in Numerals}

RECURSIVE GCD(_, _)
GCD(a, b) == IF b = 0 THEN a ELSE GCD(b, a % b)

\* int() of a string of digits
RECURSIVE ParseInt(_, _)
ParseInt(acc, digs) ==
    IF digs = <<>> THEN acc ELSE ParseInt(10 * acc + Num(Head(digs)), Tail(digs))

SlashAt(text) == CHOOSE i \in 1..Len(text) : text[i] = "/"

\* Fraction(numerator, denominator), normalized; the denominator is not 0
Fraction(n, d) == [num |-> n \div GCD(n, d), den |-> d \div GCD(n, d)]

\* the fraction  float(f)  without the scaling by 100
times100_Unscaled(f) == f

\* float(f) * 100
times100(f) == Fraction(f.num * 100, f.den)

InitScore ==
    /\ test_cases \in TestCases
    /\ score = <<>>
    /\ score_pc = "parse"
    /\ BestIdle
    /\ LinkIdle
    /\ SyncIdle
    /\ DateIdle
    /\ LastIdle
    /\ RosterIdle
    /\ RunIdle

ScoreOthers == <<best_vars, link_vars, sync_vars, date_vars, last_vars,
                 roster_vars, run_vars>>

\* line 487: props["Test cases"] == "-/-"
ScoreDash ==
    /\ score_pc = "parse"
    /\ test_cases = Dash
    /\ score' = Fraction(0, 1)
    /\ score_pc' = "done"
    /\ UNCHANGED <<test_cases, ScoreOthers>>

\* line 487: float(Fraction(props["Test cases"])) * 100
ScoreFraction ==
    /\ score_pc = "parse"
    /\ test_cases # Dash
    /\ LET k == SlashAt(test_cases)
           n == ParseInt(0, SubSeq(test_cases, 1, k - 1))
           d == ParseInt(0, SubSeq(test_cases, k + 1, Len(test_cases)))
       IN /\ d # 0
          /\ score' = times100(Fraction(n, d))
    /\ score_pc' = "done"
    /\ UNCHANGED <<test_cases, ScoreOthers>>

\* line 487: Fraction("p/0") raises ZeroDivisionError
ScoreRaises ==
    /\ score_pc = "parse"
    /\ test_cases # Dash
    /\ LET k == SlashAt(test_cases) IN
          ParseInt(0, SubSeq(test_cases, k + 1, Len(test_cases))) = 0
    /\ score_pc' = "raised"
    /\ UNCHANGED <<test_cases, score, ScoreOthers>>

NextScore == ScoreDash \/ ScoreFraction \/ ScoreRaises

SpecScore == InitScore /\ [][NextScore]_vars

\* the number a string of digits names
RECURSIVE Pow10(_)
Pow10(n) == IF n = 0 THEN 1 ELSE 10 * Pow10(n - 1)
RECURSIVE ValueOf(_)
ValueOf(digs) ==
    IF digs = <<>> THEN 0
    ELSE Num(Head(digs)) * Pow10(Len(digs) - 1) + ValueOf(Tail(digs))

\* C12: the score of "-/-" is 0; the score of "p/q" with q > 0 is 100*p/q,
\* and it is within [0, 100] when p <= q.
C12_ScoreNormalized ==
    score_pc = "done" =>
        /\ test_cases = Dash => score.num = 0
        /\ \A p \in Numerals, q \in Numerals :
              (test_cases = p \o <<"/">> \o q /\ ValueOf(q) > 0) =>
                  /\ score.den > 0
                  /\ score.num * ValueOf(q) = 100 * ValueOf(p) * score.den
                  /\ ValueOf(p) <= ValueOf(q) =>
                        (0 <= score.num /\ score.num <= 100 * score.den)

\* the score of "3/5" is 60
C12_Witness ==
    /\ score_pc = "done"
    /\ test_cases = <<"3", "/", "5">>
    /\ score = [num |-> 60, den |-> 1]

-----------------------------------------------------------------------------
(* extract_last (lines 72-76); indexes are Python's, from 0 *)

MaxPath == 4

PathChars == {"/", "a", "b"}

Paths == SeqsUpTo(PathChars, MaxPath)

HasSlash(text) == \E i \in 1..Len(text) : text[i] = "/"

\* str.rindex("/"), for a string that holds a "/"
rindex(text) ==
    (CHOOSE i \in 1..Len(text) :
        /\ text[i] = "/"
        /\ \A j \in (i + 1)..Len(text) : text[j] # "/") - 1

\* line 74: the truth value of the integer last_slash
Truthy(n) == n # 0

\* pathish[from:]
SliceFrom(text, from) == SubSeq(text, from + 1, Len(text))

InitLast ==
    /\ extract_arg \in Paths
    /\ pathish = extract_arg
    /\ last_slash = 0
    /\ last_pc = "call"
    /\ BestIdle
    /\ LinkIdle
    /\ SyncIdle
    /\ DateIdle
    /\ ScoreIdle
    /\ RosterIdle
    /\ RunIdle

LastOthers == <<best_vars, link_vars, sync_vars, date_vars, score_vars,
                roster_vars, run_vars>>

\* line 73
LastIndex ==
    /\ last_pc = "call"
    /\ HasSlash(pathish)
    /\ last_slash' = rindex(pathish)
    /\ last_pc' = "test"
    /\ UNCHANGED <<extract_arg, pathish, LastOthers>>

\* line 73: rindex raises ValueError, the string holds no "/"
LastRaises ==
    /\ last_pc = "call"
    /\ ~HasSlash(pathish)
    /\ last_pc' = "raised"
    /\ UNCHANGED <<extract_arg, pathish, last_slash, LastOthers>>

\* lines 74-76
LastReturn ==
    /\ last_pc = "test"
    /\ pathish' = IF Truthy(last_slash) THEN SliceFrom(pathish, last_slash + 1)
                  ELSE pathish
    /\ last_pc' = "done"
    /\ UNCHANGED <<extract_arg, last_slash, LastOthers>>

NextLast == LastIndex \/ LastRaises \/ LastReturn

SpecLast == InitLast /\ [][NextLast]_vars

\* C17: for an argument that holds a "/", extract_last returns the text
\* after its last "/": a suffix without "/" that follows a "/".
C17_FinalSegment ==
    last_pc = "done" =>
        /\ ~HasSlash(pathish)
        /\ \E k \in 1..Len(extract_arg) :
              /\ extract_arg[k] = "/"
              /\ pathish = SubSeq(extract_arg, k + 1, Len(extract_arg))

-----------------------------------------------------------------------------
(* get_kattis_links (lines 338-356): the main thread submits one           *)
(* get_profile per student to the executor; the workers complete them in   *)
(* any order, while the main thread goes on.                               *)

MaxUsers == 3

UserNames == {"ann", "bob"}

\* a user of the course: its place in the listing identifies it;
\* kattis_user is what its profile's judge link, if any, ends in
CourseUser(i) == [id: {i}, name: UserNames, student: BOOLEAN,
                  kattis_user: {"k1", None}]

CourseUserLists ==
    UNION {{us \in [1..n -> UNION {CourseUser(i) : i \in 1..n}] :
               \A i \in 1..n : us[i].id = i} : n \in 0..MaxUsers}

\* lines 346-350: the parameter user is the submitted user, whatever user
\* the loop variable u holds when the worker runs
KattisLink(canvas_user, kattis_user) ==
    [canvas_user |-> canvas_user, kattis_user |-> kattis_user]

\* get_profile reading the loop variable u in place of its parameter
get_profile_LoopVariable(user, u) == KattisLink(u, u.kattis_user)

get_profile(user, u) == KattisLink(user, user.kattis_user)

\* the order of the names, as < on strings
NameRank(name) == IF name = "ann" THEN 1 ELSE 2

\* list.sort(key=lambda l: l.canvas_user.name): a stable sort
RECURSIVE InsertByName(_, _)
InsertByName(sorted, l) ==
    IF sorted = <<>> THEN <<l>>
    ELSE IF NameRank(sorted[Len(sorted)].canvas_user.name) <= NameRank(l.canvas_user.name)
         THEN Append(sorted, l)
         ELSE Append(InsertByName(SubSeq(sorted, 1, Len(sorted) - 1), l),
                     sorted[Len(sorted)])

RECURSIVE SortByName(_)
SortByName(ls) ==
    IF ls = <<>> THEN <<>>
    ELSE InsertByName(SortByName(SubSeq(ls, 1, Len(ls) - 1)), ls[Len(ls)])

InitRoster ==
    /\ course_users \in CourseUserLists
    /\ user_i = 0
    /\ futures = <<>>
    /\ gather_i = 0
    /\ links_out = <<>>
    /\ roster_pc = "submit"
    /\ BestIdle
    /\ LinkIdle
    /\ SyncIdle
    /\ DateIdle
    /\ ScoreIdle
    /\ LastIdle
    /\ RunIdle

RosterOthers == <<best_vars, link_vars, sync_vars, date_vars, score_vars,
                  last_vars, run_vars>>

\* lines 342-344: a user who is no student is passed over
RosterSkip ==
    /\ roster_pc = "submit"
    /\ user_i < Len(course_users)
    /\ ~course_users[user_i + 1].student
    /\ user_i' = user_i + 1
    /\ UNCHANGED <<course_users, futures, gather_i, links_out, roster_pc, RosterOthers>>

\* lines 342-352: executor.submit(get_profile, u)
RosterSubmit ==
    /\ roster_pc = "submit"
    /\ user_i < Len(course_users)
    /\ course_users[user_i + 1].student
    /\ user_i' = user_i + 1
    /\ futures' = Append(futures, [user |-> course_users[user_i + 1],
                                   done |-> FALSE, result |-> None,
                                   nth |-> 0])
    /\ UNCHANGED <<course_users, gather_i, links_out, roster_pc, RosterOthers>>

\* the loop of line 342 is exhausted
RosterSubmitted ==
    /\ roster_pc = "submit"
    /\ user_i = Len(course_users)
    /\ roster_pc' = "gather"
    /\ UNCHANGED <<course_users, user_i, futures, gather_i, links_out, RosterOthers>>

\* a worker thread runs get_profile for a submitted future (lines 346-350);
\* nth records the order of completion
RosterWorker ==
    /\ roster_pc \in {"submit", "gather"}
    /\ \E f \in 1..Len(futures) :
          /\ ~futures[f].done
          /\ futures' = [futures EXCEPT ![f] =
                [@ EXCEPT !.done = TRUE,
                          !.nth = 1 + Cardinality({g \in 1..Len(futures) :
                                                     futures[g].done}),
                          !.result = get_profile(futures[f].user, course_users[user_i])]]
    /\ UNCHANGED <<course_users, user_i, gather_i, links_out, roster_pc, RosterOthers>>

\* line 354: f.result() of the next future, once it is done
RosterGather ==
    /\ roster_pc = "gather"
    /\ gather_i < Len(futures)
    /\ futures[gather_i + 1].done
    /\ links_out' = Append(links_out, futures[gather_i + 1].result)
    /\ gather_i' = gather_i + 1
    /\ UNCHANGED <<course_users, user_i, futures, roster_pc, RosterOthers>>

\* lines 355-356
RosterSort ==
    /\ roster_pc = "gather"
    /\ gather_i = Len(futures)
    /\ links_out' = SortByName(links_out)
    /\ roster_pc' = "done"
    /\ UNCHANGED <<course_users, user_i, futures, gather_i, RosterOthers>>

NextRoster ==
    \/ RosterSkip
    \/ RosterSubmit
    \/ RosterSubmitted
    \/ RosterWorker
    \/ RosterGather
    \/ RosterSort

SpecRoster == InitRoster /\ [][NextRoster]_vars

Students == {i \in 1..Len(course_users) : course_users[i].student}

\* the two maps of lines 396-403, built from links_out
MapsOfLinks ==
    FoldKattisLinks([k2c |-> EmptyDict, c2k |-> EmptyDict, warned |-> {}],
        [j \in 1..Len(links_out) |->
            [canvas_user |-> links_out[j].canvas_user.id,
             kattis_user |-> links_out[j].kattis_user]])

\* C15: whatever the order in which the lookups complete, the links
\* returned hold one link per student, made of that student and of what
\* that student's profile gave, ordered by name and, for equal names, as
\* listed; the map from LMS user to judge user built from them holds
\* exactly the students that have a judge link, each with its own.
C15_LinksIndependentOfCompletion ==
    roster_pc = "done" =>
        /\ Len(links_out) = Cardinality(Students)
        /\ \A i \in Students :
              \E j \in 1..Len(links_out) :
                  links_out[j] = [canvas_user |-> course_users[i],
                                  kattis_user |-> course_users[i].kattis_user]
        /\ \A j, k \in 1..Len(links_out) :
              j < k =>
                  \/ NameRank(links_out[j].canvas_user.name)
                        < NameRank(links_out[k].canvas_user.name)
                  \/ /\ links_out[j].canvas_user.name = links_out[k].canvas_user.name
                     /\ links_out[j].canvas_user.id < links_out[k].canvas_user.id
        /\ DOMAIN MapsOfLinks.c2k =
              {i \in Students : course_users[i].kattis_user # None}
        /\ \A i \in DOMAIN MapsOfLinks.c2k :
              MapsOfLinks.c2k[i] = course_users[i].kattis_user

\* the lookup of a later student completed before that of an earlier one,
\* and the links are returned
C15_Witness ==
    /\ roster_pc = "done"
    /\ \E f, g \in 1..Len(futures) :
          /\ f < g
          /\ futures[f].nth > futures[g].nth

-----------------------------------------------------------------------------
(* submissions2canvas: the loop over the judge's assignments (lines        *)
(* 417-456).  What is done for one assignment is reduced to its best       *)
(* submissions that are due an update, each a call of edit that returns or *)
(* raises.                                                                 *)

MaxAssignments == 3
MaxUpdates == 1

AssignmentTitles == {"hw1", "hw2"}
Starts == {1, 2}

\* class Assignment, with the number of its best submissions due an update
Assignment == [title: AssignmentTitles, start: Starts, updates: 0..MaxUpdates]

\* Missing that finds every title in the destination
Missing_Never(title) == FALSE

\* line 418: assignment.title not in assignments
Missing(title) == title \notin assignments

InitRun ==
    /\ kattis_assignments \in SeqsUpTo(Assignment, MaxAssignments)
    /\ assignments \in SUBSET AssignmentTitles
    /\ assign_i = 0
    /\ entry_i = 0
    /\ run_log = <<>>
    /\ run_pc = "loop"
    /\ BestIdle
    /\ LinkIdle
    /\ SyncIdle
    /\ DateIdle
    /\ ScoreIdle
    /\ LastIdle
    /\ RosterIdle

RunOthers == <<best_vars, link_vars, sync_vars, date_vars, score_vars,
               last_vars, roster_vars>>

Event(kind) == [kind |-> kind, index |-> assign_i + 1,
                title |-> kattis_assignments[assign_i + 1].title]

\* lines 418-419: error(... not in canvas ...), then the next assignment
RunMissing ==
    /\ run_pc = "loop"
    /\ assign_i < Len(kattis_assignments)
    /\ Missing(kattis_assignments[assign_i + 1].title)
    /\ run_log' = Append(run_log, Event("error"))
    /\ assign_i' = assign_i + 1
    /\ UNCHANGED <<kattis_assignments, assignments, entry_i, run_pc, RunOthers>>

\* lines 420-438: the best submissions and the destination submissions of
\* the assignment are fetched
RunBegin ==
    /\ run_pc = "loop"
    /\ assign_i < Len(kattis_assignments)
    /\ ~Missing(kattis_assignments[assign_i + 1].title)
    /\ run_log' = Append(run_log, Event("planned"))
    /\ entry_i' = 0
    /\ run_pc' = "entries"
    /\ UNCHANGED <<kattis_assignments, assignments, assign_i, RunOthers>>

\* lines 446-453: edit(comment=...) returns
RunEntry ==
    /\ run_pc = "entries"
    /\ entry_i < kattis_assignments[assign_i + 1].updates
    /\ run_log' = Append(run_log, Event("write"))
    /\ entry_i' = entry_i + 1
    /\ UNCHANGED <<kattis_assignments, assignments, assign_i, run_pc, RunOthers>>

\* line 451 raises: nothing catches it, the run ends
RunEntryRaises ==
    /\ run_pc = "entries"
    /\ entry_i < kattis_assignments[assign_i + 1].updates
    /\ run_log' = Append(run_log, Event("raised"))
    /\ run_pc' = "aborted"
    /\ UNCHANGED <<kattis_assignments, assignments, assign_i, entry_i, RunOthers>>

\* the loop of line 440 is exhausted: the next assignment
RunAssignmentDone ==
    /\ run_pc = "entries"
    /\ entry_i = kattis_assignments[assign_i + 1].updates
    /\ assign_i' = assign_i + 1
    /\ run_pc' = "loop"
    /\ UNCHANGED <<kattis_assignments, assignments, entry_i, run_log, RunOthers>>

\* the loop of line 417 is exhausted
RunDone ==
    /\ run_pc = "loop"
    /\ assign_i = Len(kattis_assignments)
    /\ run_pc' = "done"
    /\ UNCHANGED <<kattis_assignments, assignments, assign_i, entry_i, run_log, RunOthers>>

NextRun ==
    \/ RunMissing
    \/ RunBegin
    \/ RunEntry
    \/ RunEntryRaises
    \/ RunAssignmentDone
    \/ RunDone

SpecRun == InitRun /\ [][NextRun]_vars

EventsOf(i, kind) ==
    {j \in 1..Len(run_log) : run_log[j].index = i /\ run_log[j].kind = kind}

InDestination(i) == kattis_assignments[i].title \in assignments

\* C13: an assignment without a destination assignment of its title is
\* reported once and nothing of it is planned or written; the report does
\* not end the run: every assignment the loop has passed that has a
\* destination assignment was planned and its updates written, a run that
\* is done has passed all of them, and a run ends early only where a write
\* raised.
C13_MissingAssignmentSkipped ==
    /\ \A i \in 1..assign_i :
          IF InDestination(i)
          THEN /\ Cardinality(EventsOf(i, "planned")) = 1
               /\ Cardinality(EventsOf(i, "write")) = kattis_assignments[i].updates
               /\ EventsOf(i, "error") = {}
          ELSE /\ Cardinality(EventsOf(i, "error")) = 1
               /\ EventsOf(i, "planned") = {}
               /\ EventsOf(i, "write") = {}
    /\ run_pc = "done" => assign_i = Len(kattis_assignments)
    /\ run_pc = "aborted" => run_log[Len(run_log)].kind = "raised"

\* a finished run that reported a missing assignment and then wrote the
\* update of a later one
C13_Witness ==
    /\ run_pc = "done"
    /\ \E j, k \in 1..Len(run_log) :
          /\ j < k
          /\ run_log[j].kind = "error"
          /\ run_log[k].kind = "write"

\* C16: the assignments are planned, and their updates written, in
\* ascending order of their start.
C16_AscendingStart ==
    \A j, k \in 1..Len(run_log) :
        (j < k /\ run_log[j].kind # "error" /\ run_log[k].kind # "error") =>
            kattis_assignments[run_log[j].index].start
                <= kattis_assignments[run_log[k].index].start

-----------------------------------------------------------------------------
(* Further properties of submissions2canvas and get_best_submissions *)

\* the best submissions the loop of line 440 has not reached
Remaining == (Len(plan) + 1)..Len(Entries(best_keys))

\* C14: a write that fails does not end the run: when the run has ended,
\* no best submission that is due an update is left without its plan entry
\* and write, and no write was issued twice for the same best submission.
C14_FailureIsPerEntry ==
    /\ sync_pc \in {"done", "aborted"} =>
          \A k \in Remaining :
              ~Edits(Branch(Entries(best_keys)[k].user, Entries(best_keys)[k]))
    /\ \A i, j \in 1..Len(writes) :
          (i # j /\ writes[i].run = writes[j].run) =>
              <<writes[i].user, writes[i].problem>> # <<writes[j].user, writes[j].problem>>

\* what best holds for (user, problem): one submission or none
Slot(best, user, problem) ==
    IF user \in DOMAIN best /\ problem \in DOMAIN best[user]
    THEN {best[user][problem]} ELSE {}

\* C18: processing one row leaves the best submission held for every other
\* (user, problem) pair as it was.
C18_RowChangesOwnSlotOnly ==
    [][row_i' = row_i + 1 =>
          \A user \in KattisUsers, problem \in Problems :
              <<user, problem>> # <<rows[row_i + 1].user, rows[row_i + 1].problem>> =>
                  Slot(best_submissions', user, problem)
                      = Slot(best_submissions, user, problem)]_vars

\* C19: every write of the run for a best submission of judge user k is
\* made on the destination submission of the LMS user kattis_user2canvas_id
\* maps k to, the user the report of that write names.
C19_WriteGoesToLinkedUser ==
    /\ \A i \in 1..Len(writes) :
          writes[i].run = run => writes[i].user_id = kattis_user2canvas_id[writes[i].user]
    /\ \A i \in 1..Len(plan) :
          plan[i].action = "Update" =>
              plan[i].named = submissions_by_user[plan[i].user].user_id

====
